---- MODULE Spec2Model ----
(***************************************************************************)
(* Model of mirt/generate_predictions.py: load_and_simulate_assessment,    *)
(* parse_line and write_roc_datapoint.                                     *)
(*                                                                         *)
(* Python strings are sequences of one-character strings, so that strip()  *)
(* and split(',') are computed character by character.  A Python list is a *)
(* sequence; Python's 0-based index i is position i + 1 of the sequence.   *)
(***************************************************************************)
EXTENDS Integers, Sequences, FiniteSets, TLC

VARIABLES
    pc,                     \* position of the running call
    ret,                    \* who called write_roc_datapoint: "loop" or "caller"
    error,                  \* the exception that ended the run, "" if none
    line,                   \* the text line handed to a direct parse_line call
    parsed,                 \* what the last parse_line call returned
    lines_read,             \* the lines of test_data consumed so far
    evaluation_item_index,  \* argument: <<>> is None, <<i>> is the position i
    user,                   \* load_and_simulate_assessment: user
    model,                  \* load_and_simulate_assessment: model
    models_built,           \* number of MIRTEngine instances constructed
    history,                \* the history list (shared with the callee)
    evaluation_indexes,     \* the caller's evaluation_indexes list
    datapoints,             \* load_and_simulate_assessment: datapoints
    outfile,                \* the roc file: [closed, lines]
    test_data,              \* the test file: [closed]
    indexes,                \* write_roc_datapoint: local evaluation_indexes
    evaluation_items,       \* write_roc_datapoint: evaluation_items
    roc_points,             \* write_roc_datapoint: roc_points
    args,                   \* the arguments of the running write_roc_datapoint call
    calls,                  \* the estimated_exercise_accuracy calls made so far
    finalizations,          \* the write_roc_datapoint calls that returned
    result                  \* the value returned to the caller

vars == <<pc, ret, error, line, parsed, lines_read, evaluation_item_index, user,
          model, models_built, history, evaluation_indexes, datapoints, outfile,
          test_data, indexes, evaluation_items, roc_points, args, calls,
          finalizations, result>>

----------------------------------------------------------------------------
(* Bounds of the model *)

MaxLines == 3
MaxHist == 3

----------------------------------------------------------------------------
(* Python values and sequences *)

Range(s) == {s[i] : i \in DOMAIN s}

PyStr(chars) == [t |-> "str", v |-> chars]
PyInt(n) == [t |-> "int", v |-> n]

\* Python ==: a str never equals an int
PyEq(a, b) == a.t = b.t /\ a.v = b.v

\* Python `x in tuple`
PyIn(x, tup) == \E i \in DOMAIN tup : PyEq(x, tup[i])

\* list[i] is defined for -len <= i < len, an IndexError otherwise
InRange(s, i) == -Len(s) <= i /\ i < Len(s)
At(s, i) == IF i >= 0 THEN s[i + 1] ELSE s[Len(s) + i + 1]

\* history[i] in place of history.pop(i): the element is read, not removed
PopKeeps(s, i) == s

\* history.pop() without the index: the last element goes
PopLast(s, i) == SubSeq(s, 1, Len(s) - 1)

\* list.pop(i): the list without the element at index i
Pop(s, i) ==
    LET p == IF i >= 0 THEN i + 1 ELSE Len(s) + i + 1
    IN  SubSeq(s, 1, p - 1) \o SubSeq(s, p + 1, Len(s))

\* the reversal forgotten
ReverseNot(s) == s

\* list.reverse()
RECURSIVE Reverse(_)
Reverse(s) == IF s = <<>> THEN <<>> ELSE Append(Reverse(Tail(s)), Head(s))

Whitespace == {" ", "\n"}

RECURSIVE LStrip(_)
LStrip(s) == IF s /= <<>> /\ Head(s) \in Whitespace THEN LStrip(Tail(s)) ELSE s

RECURSIVE RStrip(_)
RStrip(s) ==
    IF s /= <<>> /\ s[Len(s)] \in Whitespace
    THEN RStrip(SubSeq(s, 1, Len(s) - 1))
    ELSE s

\* str.strip()
Strip(s) == RStrip(LStrip(s))

\* str.split(','): always at least one field
RECURSIVE Split(_)
Split(s) ==
    IF \A i \in DOMAIN s : s[i] /= ","
    THEN <<s>>
    ELSE LET p == CHOOSE i \in DOMAIN s :
                      s[i] = "," /\ \A j \in 1..(i - 1) : s[j] /= ","
         IN  <<SubSeq(s, 1, p - 1)>> \o Split(SubSeq(s, p + 1, Len(s)))

RECURSIVE Join(_)
Join(fields) ==
    IF Len(fields) = 1 THEN fields[1]
    ELSE fields[1] \o <<",">> \o Join(Tail(fields))

----------------------------------------------------------------------------
(* parse_line *)

\* FieldIndexer.get_for_slug('simple'): the field positions of a line
indexer == [user |-> 0, exercise |-> 1, time_taken |-> 2, correct |-> 3]

\* the flag set with the text "1" added
EvaluationTruthyWithOne ==
    <<PyStr(<<"t", "r", "u", "e">>), PyStr(<<"T", "r", "u", "e">>), PyStr(<<"1">>)>>

CorrectTruthy == <<PyStr(<<"t", "r", "u", "e">>), PyStr(<<"T", "r", "u", "e">>), PyInt(1)>>
EvaluationTruthy == <<PyStr(<<"t", "r", "u", "e">>), PyStr(<<"T", "r", "u", "e">>)>>

NoParse == [err |-> "IndexError", user |-> <<>>, ex |-> <<>>, time |-> <<>>,
            correct |-> FALSE, is_evaluation |-> FALSE]

\* the positions parse_line reads of the split line
PositionsRead(ix, eii) ==
    {ix.user, ix.exercise, ix.time_taken, ix.correct} \cup Range(eii)

\* a parser that pads a short line with empty fields
parse_line_padded(l, ix, eii) ==
    LET f == Split(Strip(l)) \o <<<<>>, <<>>, <<>>, <<>>, <<>>>>
    IN  [err |-> "",
         user |-> At(f, ix.user),
         ex |-> At(f, ix.exercise),
         time |-> At(f, ix.time_taken),
         correct |-> PyIn(PyStr(At(f, ix.correct)), CorrectTruthy),
         is_evaluation |->
             IF eii /= <<>>
             THEN PyIn(PyStr(At(f, eii[1])), EvaluationTruthy)
             ELSE FALSE]

parse_line(l, ix, eii) ==
    LET f == Split(Strip(l))
    IN  IF \E i \in PositionsRead(ix, eii) : ~InRange(f, i)
        THEN NoParse
        ELSE [err |-> "",
              user |-> At(f, ix.user),
              ex |-> At(f, ix.exercise),
              time |-> At(f, ix.time_taken),
              correct |-> PyIn(PyStr(At(f, ix.correct)), CorrectTruthy),
              is_evaluation |->
                  IF eii /= <<>>
                  THEN PyIn(PyStr(At(f, eii[1])), EvaluationTruthy)
                  ELSE FALSE]

----------------------------------------------------------------------------
(* Collaborators *)

\* mirt.engine.ItemResponse.new(...).data: the dict appended to the history.
\* `at` is the identity of the dict: the index at which it was appended.
ItemResponse(correct, exercise, time_taken, at) ==
    [correct |-> correct, exercise |-> exercise, time_taken |-> time_taken,
     at |-> at]

\* mirt.mirt_engine.MIRTEngine(params): instance number n; the constructor
\* leaves only_live_exercises at its default
MIRTEngine(n) == [id |-> n, only_live_exercises |-> "default"]

\* model.estimated_exercise_accuracy(history, exercise): an opaque function
\* of the model, the history it is given and the exercise
estimated_exercise_accuracy(m, h, exercise) ==
    [model |-> m.id, history |-> h, exercise |-> exercise]

\* a block that leaves the file as it is
WithExitLeaks(f) == f

\* leaving a `with open(...)` block closes the file
WithExit(f) == [f EXCEPT !.closed = TRUE]

\* file.close()
Close(f) == [f EXCEPT !.closed = TRUE]

----------------------------------------------------------------------------
(* Inputs *)

U1 == <<"u", "1">>
U2 == <<"u", "2">>
E1 == <<"e", "1">>
E2 == <<"e", "2">>
Secs == <<"5">>
TrueText == <<"t", "r", "u", "e">>
FalseText == <<"f", "a", "l", "s", "e">>

\* evaluation_item_index: None, or the fifth field
EvalPositions == {<<>>, <<4>>}

Users == {<<>>, U1, U2}
Answers == {<<E1, TrueText>>, <<E2, FalseText>>}

\* the lines a test file is made of; the last two have too few fields
TestLines ==
    {Join(<<u, a[1], Secs, a[2], f>>) \o <<"\n">> :
        u \in Users, a \in Answers, f \in {TrueText, FalseText}}
    \cup {Join(<<U1, E1, Secs>>) \o <<"\n">>,
          Join(<<U2, E2, Secs, TrueText>>) \o <<"\n">>}

CorrectTexts ==
    {TrueText, <<"T", "r", "u", "e">>, <<"1">>, FalseText, <<"0">>,
     <<"T", "R", "U", "E">>, <<" ", "t", "r", "u", "e">>, <<>>}
FlagTexts == {TrueText, <<"T", "r", "u", "e">>, <<"1">>, FalseText}

\* the lines handed to a direct parse_line call
ParseLines ==
    {Join(<<u, E1, Secs, c, f>>) \o nl :
        u \in {<<>>, U1}, c \in CorrectTexts, f \in FlagTexts,
        nl \in {<<>>, <<"\n">>}}
    \cup {Join(<<U1, E1, Secs, c>>) \o <<"\n">> : c \in CorrectTexts}
    \cup {<<>>, <<"\n">>, Join(<<U1, E1, Secs>>), Join(<<U1, E1>>), U1}

RECURSIVE Ascending(_)
\* the ascending list of a set of indexes
Ascending(S) ==
    IF S = {} THEN <<>>
    ELSE LET m == CHOOSE x \in S : \A y \in S : x <= y
         IN  <<m>> \o Ascending(S \ {m})

\* the histories and index lists a direct write_roc_datapoint call is given:
\* the indexes are ascending positions of the history, as the loop builds them
Histories ==
    UNION {{[i \in 1..n |->
                ItemResponse(a[i][2] = TrueText, a[i][1], Secs, i - 1)] :
            a \in [1..n -> Answers]} : n \in 0..MaxHist}
IndexLists(h) == {Ascending(S) : S \in SUBSET (0..(Len(h) - 1))}

----------------------------------------------------------------------------
(* State *)

NothingParsed == [err |-> "", user |-> <<>>, ex |-> <<>>, time |-> <<>>,
                  correct |-> FALSE, is_evaluation |-> FALSE]
NoArgs == [user |-> <<>>, history |-> <<>>, evaluation_indexes |-> <<>>]

\* lines 66-77: the state on entering the loop over test_data
Init ==
    /\ pc = "for"
    /\ ret = "loop"
    /\ error = ""
    /\ line = <<>>
    /\ parsed = NothingParsed
    /\ lines_read = <<>>
    /\ evaluation_item_index \in EvalPositions
    /\ user = <<>>
    /\ model = [MIRTEngine(0) EXCEPT !.only_live_exercises = "False"]
    /\ models_built = 1
    /\ history = <<>>
    /\ evaluation_indexes = <<>>
    /\ datapoints = <<>>
    /\ outfile = [closed |-> FALSE, lines |-> <<>>]
    /\ test_data = [closed |-> FALSE]
    /\ indexes = <<>>
    /\ evaluation_items = <<>>
    /\ roc_points = <<>>
    /\ args = NoArgs
    /\ calls = <<>>
    /\ finalizations = <<>>
    /\ result = <<>>

\* an exception: inside load_and_simulate_assessment it leaves the `with`
\* block of lines 70-71 on its way out
Raise(e) ==
    /\ pc' = "failed"
    /\ error' = e
    /\ outfile' = IF ret = "loop" THEN WithExit(outfile) ELSE outfile
    /\ test_data' = IF ret = "loop" THEN WithExit(test_data) ELSE test_data

----------------------------------------------------------------------------
(* load_and_simulate_assessment: the loop over test_data *)

\* a test that every user id passes
TruthyAlways(u) == TRUE

\* line 87, `if user:`: the empty string is false
Truthy(u) == u /= <<>>

\* lines 99-106: append the response, note its index if it is held out
AppendedHistory(h, p) ==
    Append(h, ItemResponse(p.correct, p.ex, p.time, Len(h)))
AppendedIndexesOffByOne(h, ei, p) ==
    IF p.is_evaluation THEN Append(ei, Len(AppendedHistory(h, p))) ELSE ei
AppendedIndexes(h, ei, p) ==
    IF p.is_evaluation THEN Append(ei, Len(AppendedHistory(h, p)) - 1) ELSE ei

\* the reset without a new MIRTEngine
StartUserKeepsModel(p) ==
    /\ user' = p.user
    /\ model' = model
    /\ models_built' = models_built
    /\ history' = AppendedHistory(<<>>, p)
    /\ evaluation_indexes' = AppendedIndexes(<<>>, <<>>, p)

\* the reset without `history = []` and `evaluation_indexes = []`
StartUserKeepsHistory(p) ==
    /\ user' = p.user
    /\ model' = MIRTEngine(models_built)
    /\ models_built' = models_built + 1
    /\ history' = AppendedHistory(history, p)
    /\ evaluation_indexes' = AppendedIndexes(history, evaluation_indexes, p)

\* lines 93-106: reset the variables for the user of p, then append p
StartUser(p) ==
    /\ user' = p.user
    /\ model' = MIRTEngine(models_built)
    /\ models_built' = models_built + 1
    /\ history' = AppendedHistory(<<>>, p)
    /\ evaluation_indexes' = AppendedIndexes(<<>>, <<>>, p)

\* the next line of the file, while the file has one
NextLine(l) ==
    /\ pc = "for"
    /\ Len(lines_read) < MaxLines
    /\ l \in TestLines
    /\ lines_read' = Append(lines_read, l)
    /\ parsed' = parse_line(l, indexer, evaluation_item_index)

\* lines 79-82: parse_line raises on the line read
ReadMalformed ==
    \E l \in TestLines :
        /\ NextLine(l)
        /\ parsed'.err /= ""
        /\ Raise(parsed'.err)
        /\ UNCHANGED <<ret, line, evaluation_item_index, user, model,
                       models_built, history, evaluation_indexes, datapoints,
                       indexes, evaluation_items, roc_points, args, calls,
                       finalizations, result>>

\* lines 79-106 for a line of the current user, or of a new user when no
\* user is current
ReadAppend ==
    \E l \in TestLines :
        /\ NextLine(l)
        /\ parsed'.err = ""
        /\ ~(user /= parsed'.user /\ Truthy(user))
        /\ IF user /= parsed'.user
           THEN StartUser(parsed')
           ELSE /\ history' = AppendedHistory(history, parsed')
                /\ evaluation_indexes' =
                       AppendedIndexes(history, evaluation_indexes, parsed')
                /\ UNCHANGED <<user, model, models_built>>
        /\ UNCHANGED <<pc, ret, error, line, evaluation_item_index, datapoints,
                       outfile, test_data, indexes, evaluation_items,
                       roc_points, args, calls, finalizations, result>>

\* lines 79-90 for the first line of another user: call write_roc_datapoint
\* on the history of the current user
ReadBoundary ==
    \E l \in TestLines :
        /\ NextLine(l)
        /\ parsed'.err = ""
        /\ user /= parsed'.user /\ Truthy(user)
        /\ pc' = "wrd"
        /\ args' = [user |-> user, history |-> history,
                    evaluation_indexes |-> evaluation_indexes]
        /\ UNCHANGED <<ret, error, line, evaluation_item_index, user, model,
                       models_built, history, evaluation_indexes, datapoints,
                       outfile, test_data, indexes, evaluation_items,
                       roc_points, calls, finalizations, result>>

\* lines 107-109: the file is exhausted
EndOfInput ==
    /\ pc = "for"
    /\ test_data' = WithExit(Close(test_data))
    /\ outfile' = WithExit(Close(outfile))
    /\ result' = datapoints
    /\ pc' = "done"
    /\ UNCHANGED <<ret, error, line, parsed, lines_read, evaluation_item_index,
                   user, model, models_built, history, evaluation_indexes,
                   datapoints, indexes, evaluation_items, roc_points, args,
                   calls, finalizations>>

----------------------------------------------------------------------------
(* write_roc_datapoint *)

\* lines 150-159 with evaluation indexes: reverse the caller's list in place
WrdReverse ==
    /\ pc = "wrd"
    /\ Reverse(evaluation_indexes) /= <<>>
    /\ evaluation_indexes' = Reverse(evaluation_indexes)
    /\ indexes' = Reverse(evaluation_indexes)
    /\ evaluation_items' = <<>>
    /\ pc' = "pop"
    /\ UNCHANGED <<ret, error, line, parsed, lines_read, evaluation_item_index,
                   user, model, models_built, history, datapoints, outfile,
                   test_data, roc_points, args, calls, finalizations, result>>

\* range(1, len(history) + 1)
FallbackChoicesOffByOne(h) == 1..Len(h)

\* line 154: range(len(history)), what random.choice draws from
FallbackChoices(h) == 0..(Len(h) - 1)

\* lines 150-159 without evaluation indexes: random.choice(range(len(history)))
\* rebinds the local name, and raises IndexError on an empty range
WrdFallback ==
    /\ pc = "wrd"
    /\ Reverse(evaluation_indexes) = <<>>
    /\ IF history = <<>>
       THEN /\ Raise("IndexError")
            /\ UNCHANGED <<indexes, evaluation_items>>
       ELSE /\ \E r \in FallbackChoices(history) : indexes' = <<r>>
            /\ evaluation_items' = <<>>
            /\ pc' = "pop"
            /\ UNCHANGED <<error, outfile, test_data>>
    /\ UNCHANGED <<ret, line, parsed, lines_read, evaluation_item_index, user,
                   model, models_built, history, evaluation_indexes,
                   datapoints, roc_points, args, calls, finalizations, result>>

\* lines 160-165: one iteration of the removal loop
WrdPop ==
    /\ pc = "pop"
    /\ LET i == indexes[Len(evaluation_items) + 1]
       IN  IF ~InRange(history, i)
           THEN /\ Raise("IndexError")
                /\ UNCHANGED <<history, evaluation_items, roc_points>>
           ELSE /\ evaluation_items' = Append(evaluation_items, At(history, i))
                /\ history' = Pop(history, i)
                /\ IF Len(evaluation_items') = Len(indexes)
                   THEN pc' = "predict" /\ roc_points' = <<>>
                   ELSE pc' = "pop" /\ UNCHANGED roc_points
                /\ UNCHANGED <<error, outfile, test_data>>
    /\ UNCHANGED <<ret, line, parsed, lines_read, evaluation_item_index, user,
                   model, models_built, evaluation_indexes, datapoints,
                   indexes, args, calls, finalizations, result>>

\* the ground truth inverted
ActualInverted(item) == IF item.correct THEN 0 ELSE 1

\* lines 173-177: 1 for a correct response, 0 otherwise
Actual(item) == IF item.correct THEN 1 ELSE 0

\* lines 167-179: one iteration of the prediction loop
WrdPredict ==
    /\ pc = "predict"
    /\ LET evaluation_item == evaluation_items[Len(roc_points) + 1]
           acc == estimated_exercise_accuracy(
                      model, history, evaluation_item.exercise)
       IN  /\ calls' = Append(calls,
                  [inv |-> Len(finalizations) + 1, model |-> model,
                   history |-> history,
                   exercise |-> evaluation_item.exercise])
           /\ roc_points' = Append(roc_points,
                  <<Actual(evaluation_item), acc>>)
    /\ pc' = IF Len(roc_points') = Len(evaluation_items)
             THEN "return" ELSE "predict"
    /\ UNCHANGED <<ret, error, line, parsed, lines_read, evaluation_item_index,
                   user, model, models_built, history, evaluation_indexes,
                   datapoints, outfile, test_data, indexes, evaluation_items,
                   args, finalizations, result>>

\* line 168: the model raises instead of answering
WrdPredictFails ==
    /\ pc = "predict"
    /\ Raise("ModelError")
    /\ UNCHANGED <<ret, line, parsed, lines_read, evaluation_item_index, user,
                   model, models_built, history, evaluation_indexes,
                   datapoints, indexes, evaluation_items, roc_points, args,
                   calls, finalizations, result>>

Finalized ==
    Append(finalizations,
           [user |-> args.user, history |-> args.history,
            evaluation_indexes |-> args.evaluation_indexes,
            evaluation_items |-> evaluation_items,
            remaining |-> history, roc_points |-> roc_points])

\* the new points put in front of the old ones
ExtendFront(old, new) == new \o old

\* line 88, datapoints.extend(...)
Extend(old, new) == old \o new

\* line 180, then lines 88-106 of the caller: extend datapoints, reset the
\* variables and append the line that was read
WrdReturnToLoop ==
    /\ pc = "return"
    /\ ret = "loop"
    /\ datapoints' = Extend(datapoints, roc_points)
    /\ finalizations' = Finalized
    /\ StartUser(parsed)
    /\ pc' = "for"
    /\ UNCHANGED <<ret, error, line, parsed, lines_read, evaluation_item_index,
                   outfile, test_data, indexes, evaluation_items, roc_points,
                   args, calls, result>>

\* line 180, to a direct caller
WrdReturnToCaller ==
    /\ pc = "return"
    /\ ret = "caller"
    /\ result' = roc_points
    /\ finalizations' = Finalized
    /\ pc' = "done"
    /\ UNCHANGED <<ret, error, line, parsed, lines_read, evaluation_item_index,
                   user, model, models_built, history, evaluation_indexes,
                   datapoints, outfile, test_data, indexes, evaluation_items,
                   roc_points, args, calls>>

----------------------------------------------------------------------------
(* Specifications *)

Next ==
    \/ EndOfInput
    \/ ReadMalformed
    \/ ReadAppend
    \/ ReadBoundary
    \/ WrdReverse
    \/ WrdFallback
    \/ WrdPop
    \/ WrdPredict
    \/ WrdPredictFails
    \/ WrdReturnToLoop

\* a run of load_and_simulate_assessment
Spec == Init /\ [][Next]_vars

\* a direct call write_roc_datapoint(history, evaluation_indexes, model, outfile)
InitWrite ==
    /\ pc = "wrd"
    /\ ret = "caller"
    /\ error = ""
    /\ line = <<>>
    /\ parsed = NothingParsed
    /\ lines_read = <<>>
    /\ evaluation_item_index = <<>>
    /\ user = <<>>
    /\ model = [MIRTEngine(0) EXCEPT !.only_live_exercises = "False"]
    /\ models_built = 1
    /\ history \in Histories
    /\ evaluation_indexes \in IndexLists(history)
    /\ datapoints = <<>>
    /\ outfile = [closed |-> FALSE, lines |-> <<>>]
    /\ test_data = [closed |-> FALSE]
    /\ indexes = <<>>
    /\ evaluation_items = <<>>
    /\ roc_points = <<>>
    /\ args = [user |-> <<>>, history |-> history,
               evaluation_indexes |-> evaluation_indexes]
    /\ calls = <<>>
    /\ finalizations = <<>>
    /\ result = <<>>

NextWrite ==
    \/ WrdReverse
    \/ WrdFallback
    \/ WrdPop
    \/ WrdPredict
    \/ WrdPredictFails
    \/ WrdReturnToCaller

SpecWrite == InitWrite /\ [][NextWrite]_vars

\* a direct call parse_line(line, indexer, evaluation_item_index)
InitParse ==
    /\ pc = "parse"
    /\ ret = "caller"
    /\ error = ""
    /\ line \in ParseLines
    /\ parsed = NothingParsed
    /\ lines_read = <<>>
    /\ evaluation_item_index \in EvalPositions
    /\ user = <<>>
    /\ model = [MIRTEngine(0) EXCEPT !.only_live_exercises = "False"]
    /\ models_built = 1
    /\ history = <<>>
    /\ evaluation_indexes = <<>>
    /\ datapoints = <<>>
    /\ outfile = [closed |-> FALSE, lines |-> <<>>]
    /\ test_data = [closed |-> FALSE]
    /\ indexes = <<>>
    /\ evaluation_items = <<>>
    /\ roc_points = <<>>
    /\ args = NoArgs
    /\ calls = <<>>
    /\ finalizations = <<>>
    /\ result = <<>>

\* lines 120-129
ParseCall ==
    /\ pc = "parse"
    /\ parsed' = parse_line(line, indexer, evaluation_item_index)
    /\ IF parsed'.err /= ""
       THEN Raise(parsed'.err)
       ELSE pc' = "done" /\ UNCHANGED <<error, outfile, test_data>>
    /\ UNCHANGED <<ret, line, lines_read, evaluation_item_index, user, model,
                   models_built, history, evaluation_indexes, datapoints,
                   indexes, evaluation_items, roc_points, args, calls,
                   finalizations, result>>

NextParse == ParseCall

SpecParse == InitParse /\ [][NextParse]_vars

----------------------------------------------------------------------------
(* Properties *)

Last(s) == s[Len(s)]

\* the evaluation indexes of the write_roc_datapoint call that made call c
HeldOutOf(c) ==
    IF c.inv <= Len(finalizations)
    THEN finalizations[c.inv].evaluation_indexes
    ELSE args.evaluation_indexes

\* the users of the lines read
UsersRead ==
    {parse_line(lines_read[i], indexer, evaluation_item_index).user :
        i \in DOMAIN lines_read}

\* C1: when the whole input is consumed, every user with a record in the
\* input, the user of the last record included, has contributed at least one
\* datapoint: a write_roc_datapoint call for that user returned a point.
EndOfInputFlush ==
    pc = "done" =>
        \A u \in UsersRead \ {<<>>} :
            \E k \in DOMAIN finalizations :
                /\ finalizations[k].user = u
                /\ Len(finalizations[k].roc_points) >= 1

\* C2: every history handed to estimated_exercise_accuracy holds no record
\* whose original index is an evaluation index of that user, and once the
\* prediction loop is entered no such record is left in the history.
UntaintedEvaluation ==
    /\ \A n \in DOMAIN calls :
           \A j \in DOMAIN calls[n].history :
               calls[n].history[j].at \notin Range(HeldOutOf(calls[n]))
    /\ pc \in {"predict", "return"} =>
           \A j \in DOMAIN history :
               history[j].at \notin Range(args.evaluation_indexes)

UntaintedEvaluationReached ==
    /\ pc = "return"
    /\ Len(args.evaluation_indexes) >= 2
    /\ Len(calls) >= 2
    /\ history /= <<>>

\* C3: at the end of a run the roc file holds as many lines as datapoints are
\* returned, and the i-th line is the i-th datapoint.
OutputPairing ==
    pc = "done" =>
        /\ Len(outfile.lines) = Len(result)
        /\ \A i \in DOMAIN result : outfile.lines[i] = result[i]

\* C4: a call with a history of length >= 1 and no evaluation index never
\* fails on the random choice, and when it returns it returns exactly one
\* datapoint, for one index drawn from [0, len(history)), after one prediction
\* call on a history of length len(history) - 1.
FallbackExactlyOne ==
    (args.evaluation_indexes = <<>> /\ Len(args.history) >= 1) =>
        /\ error /= "IndexError"
        /\ pc = "done" =>
               /\ Len(result) = 1
               /\ Len(indexes) = 1
               /\ indexes[1] \in 0..(Len(args.history) - 1)
               /\ evaluation_items = <<At(args.history, indexes[1])>>
               /\ Len(calls) = 1
               /\ Len(calls[1].history) = Len(args.history) - 1

FallbackExactlyOneReached ==
    /\ pc = "done"
    /\ args.evaluation_indexes = <<>>
    /\ Len(args.history) >= 2
    /\ indexes = <<1>>
    /\ Len(result) = 1

\* C5: with evaluation indexes i1 < ... < ik, the records removed are the
\* records at the positions i1..ik of the history as it was passed in, the
\* j-th removal being the record at the j-th index from the top.
RemovalOrderStability ==
    LET E == args.evaluation_indexes
        k == Len(E)
    IN  (pc \in {"pop", "predict", "return", "done"} /\ k >= 1) =>
            /\ \A j \in DOMAIN evaluation_items :
                   evaluation_items[j] = At(args.history, E[k - j + 1])
            /\ pc /= "pop" => Len(evaluation_items) = k

RemovalOrderStabilityReached ==
    /\ pc = "predict"
    /\ args.evaluation_indexes = <<0, 1>>
    /\ Len(args.history) >= 3
    /\ Len(evaluation_items) = 2

\* C6: every prediction call is made on a model instance whose
\* only_live_exercises was explicitly set to False.
LiveExercisesDisabled ==
    \A n \in DOMAIN calls : calls[n].model.only_live_exercises = "False"

\* C7: parse_line returns correct = true exactly when the text of the correct
\* field is "true", "True" or "1".
CorrectFieldTruthiness ==
    pc = "done" =>
        (parsed.correct <=>
            At(Split(Strip(line)), indexer.correct)
                \in {TrueText, <<"T", "r", "u", "e">>, <<"1">>})

\* C8: a call with an empty history and no evaluation index returns no
\* datapoint and does not fail.
EmptyHistoryFinalization ==
    (args.history = <<>> /\ args.evaluation_indexes = <<>> /\ pc /= "wrd") =>
        /\ pc = "done"
        /\ error = ""
        /\ result = <<>>

\* the line has fewer fields than the largest configured position requires
TooFewFields(l) ==
    \E i \in PositionsRead(indexer, evaluation_item_index) :
        Len(Split(Strip(l))) < i + 1

\* C9: reading a line with too few fields ends the run with an IndexError,
\* and nothing is appended to the history, the evaluation indexes or the
\* datapoints for that line.
MalformedRecord ==
    [][(lines_read' /= lines_read /\ TooFewFields(Last(lines_read'))) =>
           /\ pc' = "failed"
           /\ error' = "IndexError"
           /\ history' = history
           /\ evaluation_indexes' = evaluation_indexes
           /\ datapoints' = datapoints]_vars

MalformedRecordReached ==
    /\ pc = "failed"
    /\ error = "IndexError"
    /\ Len(lines_read) >= 2
    /\ TooFewFields(Last(lines_read))
    /\ Len(Split(Strip(Last(lines_read)))) = 4
    /\ history /= <<>>

\* C10: in every terminal state of a run, normal or failed, the roc file is
\* closed.
SinkClosedOnExit ==
    pc \in {"done", "failed"} => outfile.closed

SinkClosedOnExitReached ==
    /\ pc = "failed"
    /\ error = "ModelError"
    /\ datapoints /= <<>>
    /\ outfile.closed

\* C11: a call with k >= 1 evaluation indexes that returns, returns exactly k
\* datapoints, one per held-out record (highest index first): its first field
\* is 1 if the record is correct and 0 otherwise, its second the answer of the
\* model to the prediction call made for the exercise of that record.
OnePointPerHeldOut ==
    LET E == args.evaluation_indexes
        k == Len(E)
    IN  (pc = "done" /\ k >= 1) =>
            /\ Len(result) = k
            /\ Len(calls) = k
            /\ \A j \in 1..k :
                   LET rec == At(args.history, E[k - j + 1])
                   IN  /\ result[j][1] = (IF rec.correct THEN 1 ELSE 0)
                       /\ calls[j].exercise = rec.exercise
                       /\ result[j][2] = estimated_exercise_accuracy(
                              calls[j].model, calls[j].history, rec.exercise)

OnePointPerHeldOutReached ==
    /\ pc = "done"
    /\ Len(args.evaluation_indexes) >= 2
    /\ Len(args.history) >= 3
    /\ \E i, j \in DOMAIN result : result[i][1] = 1 /\ result[j][1] = 0

\* parse_line tabulated over the lines of a test file and the flag positions
ParsedTestLine ==
    [l \in TestLines |-> [e \in EvalPositions |-> parse_line(l, indexer, e)]]

\* what parse_line returns for each line of ls
ParsedLines(ls) ==
    [i \in DOMAIN ls |-> ParsedTestLine[ls[i]][evaluation_item_index]]

Front(s) == SubSeq(s, 1, Len(s) - 1)

\* the first position of the contiguous run of one user that ends the parsed
\* lines ps
RunStart(ps) ==
    CHOOSE b \in 1..Len(ps) :
        /\ \A i \in b..Len(ps) : ps[i].user = Last(ps).user
        /\ b = 1 \/ ps[b - 1].user /= Last(ps).user

\* the records of that run, in input order, and its held-out positions
RunRecords(ps) ==
    LET b == RunStart(ps)
    IN  [i \in 1..(Len(ps) - b + 1) |->
            [correct |-> ps[b + i - 1].correct, exercise |-> ps[b + i - 1].ex,
             time_taken |-> ps[b + i - 1].time, at |-> i - 1]]
RunIndexes(ps) ==
    LET b == RunStart(ps)
    IN  Ascending({i - 1 : i \in {j \in 1..(Len(ps) - b + 1) :
                       ps[b + j - 1].is_evaluation}})

\* the positions that begin another user's run right after a run of a
\* non-empty user id, in input order
Boundaries(ps) ==
    Ascending({i \in 2..Len(ps) :
                   ps[i - 1].user /= ps[i].user /\ ps[i - 1].user /= <<>>})

\* C12: the history handed to write_roc_datapoint at a user boundary is the
\* whole contiguous run of the previous user, in input order, and nothing
\* else; the line that triggers the boundary is not in the history while the
\* call runs, and after it the history is that record alone, the evaluation
\* indexes holding only its own flag.
HistoryIsolation ==
    \A ps \in {ParsedLines(lines_read)} : \A B \in {Boundaries(ps)} :
        /\ pc = "wrd" =>
               /\ args.user = Last(Front(ps)).user
               /\ args.user /= Last(ps).user
               /\ args.history = RunRecords(Front(ps))
               /\ args.evaluation_indexes = RunIndexes(Front(ps))
               /\ history = args.history
        /\ pc \in {"pop", "predict", "return"} =>
               /\ Range(history) \subseteq Range(args.history)
               /\ Len(history) + Len(evaluation_items) = Len(args.history)
        /\ pc \in {"wrd", "pop", "predict", "return"} =>
               Len(finalizations) + 1 = Len(B)
        /\ (pc = "for" /\ lines_read /= <<>>) =>
               /\ user = Last(ps).user
               /\ history = RunRecords(ps)
               /\ evaluation_indexes = RunIndexes(ps)
               /\ Len(finalizations) = Len(B)
               /\ \A k \in DOMAIN finalizations :
                      finalizations[k].history =
                          RunRecords(SubSeq(ps, 1, B[k] - 1))

HistoryIsolationReached ==
    /\ pc = "for"
    /\ Len(finalizations) = 1
    /\ Len(finalizations[1].history) = 2
    /\ Len(history) = 1
    /\ evaluation_indexes = <<0>>

StrictlyAscending(s) == \A i \in 1..(Len(s) - 1) : s[i] < s[i + 1]
StrictlyDescending(s) == \A i \in 1..(Len(s) - 1) : s[i] > s[i + 1]

RECURSIVE Descending(_)
\* the descending list of a set of indexes
Descending(S) ==
    IF S = {} THEN <<>>
    ELSE LET m == CHOOSE x \in S : \A y \in S : x >= y
         IN  <<m>> \o Descending(S \ {m})

\* C13: in the loop the evaluation indexes are strictly ascending positions
\* of the history; in every call made from the loop the indexes are removed
\* in strictly descending order, which is the descending sort of the set, each
\* a valid position of the history when its record is removed, so that no
\* removal raises.
DescendingInRangeRemoval ==
    /\ pc \in {"for", "wrd"} =>
           /\ StrictlyAscending(evaluation_indexes)
           /\ \A i \in DOMAIN evaluation_indexes :
                  0 <= evaluation_indexes[i] /\ evaluation_indexes[i] < Len(history)
    /\ pc = "pop" =>
           /\ StrictlyDescending(indexes)
           /\ 0 <= indexes[Len(evaluation_items) + 1]
           /\ indexes[Len(evaluation_items) + 1] < Len(history)
           /\ args.evaluation_indexes /= <<>> =>
                  indexes = Descending(Range(args.evaluation_indexes))
    /\ error = "IndexError" => parsed.err = "IndexError"

DescendingInRangeRemovalReached ==
    /\ pc = "pop"
    /\ indexes = <<1, 0>>
    /\ Len(evaluation_items) = 1
    /\ Len(history) = 1

\* the number of lines of ps whose user differs from the user current when
\* they are read: each makes lines 93-96 construct one model
Changes(ps) ==
    Cardinality({i \in DOMAIN ps :
                     ps[i].user /= (IF i = 1 THEN <<>> ELSE ps[i - 1].user)})

\* C14: the model of the prediction calls of a user run is the instance
\* constructed at the first line of that run, and the calls of two different
\* runs are made on two different instances.
FreshModelPerUser ==
    \A ps \in {ParsedLines(lines_read)} : \A B \in {Boundaries(ps)} :
        /\ pc = "for" => model.id = Changes(ps)
        /\ pc \in {"wrd", "pop", "predict", "return"} =>
               model.id = Changes(Front(ps))
        /\ \A a, b \in DOMAIN calls :
               (calls[a].inv = calls[b].inv) <=>
                   (calls[a].model.id = calls[b].model.id)
        /\ \A n \in DOMAIN calls :
               /\ calls[n].model.id = Changes(SubSeq(ps, 1, B[calls[n].inv] - 1))
               /\ calls[n].model.id >= 1

FreshModelPerUserReached ==
    /\ pc = "return"
    /\ \E a, b \in DOMAIN calls :
           calls[a].inv /= calls[b].inv /\ calls[a].model.id /= calls[b].model.id

\* C15: parse_line returns is_evaluation = true exactly when a flag position
\* is configured and the text of that field is "true" or "True"; with no
\* position configured it is false, and the text "1" is not a flag.
EvaluationFlagTruthiness ==
    pc = "done" =>
        (parsed.is_evaluation <=>
            /\ evaluation_item_index /= <<>>
            /\ At(Split(Strip(line)), evaluation_item_index[1])
                   \in {TrueText, <<"T", "r", "u", "e">>})

EvaluationFlagTruthinessReached ==
    /\ pc = "done"
    /\ evaluation_item_index = <<4>>
    /\ At(Split(Strip(line)), 4) = <<"1">>
    /\ At(Split(Strip(line)), indexer.correct) = TrueText
    /\ ~parsed.is_evaluation

RECURSIVE Flatten(_)
\* the concatenation of a sequence of sequences
Flatten(ss) == IF ss = <<>> THEN <<>> ELSE Head(ss) \o Flatten(Tail(ss))

\* C16: the datapoints are the concatenation of the points of the finalized
\* runs, the runs taken in input order; within a run the points follow the
\* held-out records from the highest original index down.  The returned
\* sequence is that list.
EmissionOrder ==
    \A ps \in {ParsedLines(lines_read)} : \A B \in {Boundaries(ps)} :
        /\ datapoints =
               Flatten([k \in DOMAIN finalizations |-> finalizations[k].roc_points])
        /\ pc = "done" => result = datapoints
        /\ \A k \in DOMAIN finalizations :
               LET f == finalizations[k]
               IN  /\ f.history = RunRecords(SubSeq(ps, 1, B[k] - 1))
                   /\ Len(f.roc_points) = Len(f.evaluation_items)
                   /\ StrictlyDescending(
                          [j \in DOMAIN f.evaluation_items |-> f.evaluation_items[j].at])
                   /\ \A j \in DOMAIN f.evaluation_items :
                          /\ f.evaluation_items[j] =
                                 At(f.history, f.evaluation_items[j].at)
                          /\ f.roc_points[j][1] =
                                 (IF f.evaluation_items[j].correct THEN 1 ELSE 0)
                          /\ f.roc_points[j][2].exercise =
                                 f.evaluation_items[j].exercise

EmissionOrderReached ==
    /\ pc = "done"
    /\ Len(finalizations) = 2
    /\ Len(result) = 2
    /\ result[1] /= result[2]

\* the history h without the positions (0-based) in S
Without(h, S) ==
    LET keep == Ascending((0..(Len(h) - 1)) \ S)
    IN  [j \in 1..Len(keep) |-> h[keep[j] + 1]]

\* C17: the history of every prediction call is the history passed in with
\* the held-out positions deleted: every other record, once, in its order.
RemainderCompleteness ==
    /\ \A n \in DOMAIN calls :
           calls[n].history = Without(args.history, Range(indexes))
    /\ pc \in {"predict", "return", "done"} =>
           history = Without(args.history, Range(indexes))

RemainderCompletenessReached ==
    /\ pc = "return"
    /\ Len(args.history) >= 3
    /\ indexes = <<2, 0>>
    /\ Len(calls) = 2
    /\ calls[1].history = <<args.history[2]>>

\* C18: no run of records with the empty user id is handed to
\* write_roc_datapoint: every call is for a non-empty user and for the run
\* before a boundary that leaves a non-empty user (a boundary into an empty-id
\* run included, a boundary out of one excluded); when the next user begins,
\* the history holds the records of that user alone.
EmptyUserNeverFinalized ==
    \A ps \in {ParsedLines(lines_read)} : \A B \in {Boundaries(ps)} :
        /\ \A k \in DOMAIN finalizations :
               /\ finalizations[k].user /= <<>>
               /\ finalizations[k].user = ps[B[k] - 1].user
               /\ finalizations[k].history = RunRecords(SubSeq(ps, 1, B[k] - 1))
        /\ pc \in {"wrd", "pop", "predict", "return"} =>
               /\ args.user /= <<>>
               /\ Len(B) = Len(finalizations) + 1
        /\ (pc = "for" /\ lines_read /= <<>>) =>
               /\ Len(finalizations) = Len(B)
               /\ history = RunRecords(ps)
        /\ Len(datapoints) >= Len(finalizations)
        /\ Len(calls) <= Cardinality({i \in DOMAIN ps :
                                         ps[i].err = "" /\ ps[i].user /= <<>>})

EmptyUserNeverFinalizedReached ==
    /\ pc = "for"
    /\ Len(lines_read) = 3
    /\ ParsedLines(lines_read)[1].user = U1
    /\ ParsedLines(lines_read)[2].user = <<>>
    /\ user = U2
    /\ Len(finalizations) = 1
    /\ Len(history) = 1

\* the steps a write_roc_datapoint call has left, at most
StepsLeftInCall ==
    CASE pc = "wrd" -> 3 + 2 * (Len(evaluation_indexes) + 1)
      [] pc = "pop" -> 2 + Len(indexes) + (Len(indexes) - Len(evaluation_items))
      [] pc = "predict" -> 2 + (Len(evaluation_items) - Len(roc_points))
      [] pc = "return" -> 2
      [] pc = "for" -> 1
      [] OTHER -> 0

\* a variant of the run: the lines the input may still hold weigh more than
\* any call
Variant ==
    (MaxLines - Len(lines_read)) * (5 + 2 * MaxLines) + StepsLeftInCall

\* C19: every run ends: a run that has not ended has a next step, and every
\* step lowers a variant that is never negative.  It ends in failure only
\* when the line just read has too few fields or the model raised, so a run
\* over well-formed lines with an answering model returns normally; and every
\* write_roc_datapoint call of the loop is given a history of length >= 1, so
\* the random fallback never draws from an empty range.
NoFailureOnWellFormedInput ==
    /\ [](pc = "wrd" => Len(history) >= 1)
    /\ [](pc = "failed" =>
              \/ error = "ModelError"
              \/ error = "IndexError" /\ TooFewFields(Last(lines_read)))
    /\ [](pc \notin {"done", "failed"} => ENABLED Next)
    /\ [](Variant >= 0)
    /\ [][Variant' < Variant]_vars

NoFailureOnWellFormedInputReached ==
    /\ pc = "done"
    /\ error = ""
    /\ Len(lines_read) = MaxLines
    /\ Len(finalizations) >= 2
    /\ \E k \in DOMAIN finalizations : finalizations[k].evaluation_indexes = <<>>

====
